---- MODULE Spec2Model ----
(***************************************************************************)
(* A model of the TRC20 wallet bot: its auto-sweep engine, its address     *)
(* generation, its balance reads, its admin route and its rate limiter:    *)
(*   src/server.js          TRC20WalletServer (performSweep, triggers,     *)
(*                          POST /api/generate-address, cleanupOldData,    *)
(*                          signal handlers)                               *)
(*   src/unnamed/part_000   WalletManager (balances, transfers, sweep,     *)
(*                          generateHDWallet)                              *)
(*   src/unnamed/part_001   Database (users, addresses, transactions)      *)
(*   src/unnamed/part_002   TelegramBotHandler (sendNotification,          *)
(*                          handleStart, handleGenerate, isRateLimited)    *)
(*                                                                         *)
(* Node.js runs one callback at a time: the code between two awaits is one *)
(* atomic step.  Every action below is the continuation that runs when the *)
(* awaited call named by pc settles, up to the next await.                 *)
(*                                                                         *)
(* Amounts are counted in hundredths of a token (1 TRX = 100, 1 USDT = 100)*)
(* so that 1.05, 0.1 and 120.5 are integers.                               *)
(***************************************************************************)
EXTENDS Integers, Sequences, FiniteSets, Bags, TLC

(***************************************************************************)
(* Bounds of the model.                                                    *)
(***************************************************************************)
\* the time the process runs in one behaviour, in ms
MaxClock == 60001
\* sweep cycles started in one behaviour (cron ticks plus POST /api/sweep)
MaxCycles == 2
\* the largest native balance (in hundredths) read near the dust floor
MaxNearFloor == 120
\* getAccountInfo calls made in one behaviour
MaxReads == 3
\* generate-address requests handled in one behaviour
MaxRequests == 3
\* handleStart invocations awaiting createUser together
MaxStarts == 2
\* the rows the ledger operations insert into transactions, at most
MaxInserts == 4
\* the highest users.id the createUser calls of handleStart reserve
MaxUserId == 4

\* the chain client answers a submission with one of the txids 1..NumHashes
NumHashes == 2

(***************************************************************************)
(* Program constants, in hundredths of a token.                            *)
(***************************************************************************)
\* parseFloat(process.env.MIN_SWEEP_AMOUNT || 1)
MinSweepAmount == 100
\* if (trxBalance >= 15)
MinGasReserve == 1500
\* const trxToSweep = trxBalance - 1
DustReserve == 100
\* if (trxToSweep > 0.1)
MinNativeSweep == 10
\* if (timeDiff > 60000), in ms
RateWindow == 60000
\* if (userSession.commandCount >= 10)
MaxCommandCount == 10

\* the two callers of performSweep: the cron callback and the POST /api/sweep route
Procs == {"cron", "api"}

\* balances the chain may report for an address, per read (10 and 20 TRX,
\* 1 and 120.5 USDT); a read that fails yields 0, as an empty address does
TrxChoices == {1000, 2000}
UsdtChoices == {100, 12050}

\* native balances around the dust floor (1.00 TRX and up), and the gas reserve
NearFloor == (DustReserve..MaxNearFloor) \cup {MinGasReserve}

Hashes == 1..NumHashes

\* the txHash of a pushed entry when the chain client's answer has neither
\* txid nor transaction.txID (undefined)
NoHash == 0

\* process.env.MASTER_ADDRESS
MasterAddress == "TMaster"

VARIABLES
    sweepStats,     \* this.sweepStats of TRC20WalletServer
    cyc,            \* per caller: the locals of its performSweep invocation
    users,          \* table users: set of rows
    usersAutoIncrement, \* AUTO_INCREMENT of users.id: the id of the next row
    addresses,      \* table addresses: sequence of rows, in id order
    transactions,   \* table transactions: sequence of rows, in id order
    autoIncrement,  \* the id the next row of transactions gets
    started,        \* number of performSweep invocations so far
    unrecorded,     \* the chain: ids of the addresses with an accepted transfer,
                    \* not yet confirmed, whose record was never written
    gen,            \* per request: the locals of its generate-address handler
    env,            \* process.env
    mnemonics,      \* number of bip39.generateMnemonic() calls so far
    requests,       \* number of generate-address requests so far
    usdtContract,   \* this.usdtContract of WalletManager is set
    contractInits,  \* the initializeContract() call of the constructor:
                    \* "pending" until contract().at() settles, then "done"
    reads,          \* per reader: the locals of its getAccountInfo call
    readCount,      \* number of getAccountInfo calls so far
    userSessions,   \* this.userSessions of TelegramBotHandler: a Map from
                    \* the senders seen to their sessions
    clock,          \* Date.now(), in ms since the process first started
    allowed,        \* history, per sender: the times of the commands let
                    \* through during the last minute
    starting,       \* the createUser calls the handleStart invocations in
                    \* progress await: a bag of senders
    closing,        \* a SIGINT/SIGTERM handler awaits database.close(): the
                    \* pool refuses every call issued from now on
    http            \* the last POST /api/sweep request and its answer

\* the variables the generate-address handlers work on, besides the tables
genVars == <<gen, env, mnemonics, requests>>

\* the variables of the balance reads
readVars == <<usdtContract, contractInits, reads, readCount>>

\* the variables of the rate limiter
botVars == <<userSessions, clock, allowed, starting>>

\* the state of the balance reads, of the bot handler, of the admin route and
\* of the shutdown, named together for the steps that leave all of it alone
restVars == <<readVars, botVars, http, closing>>

vars == <<sweepStats, cyc, users, usersAutoIncrement, addresses, transactions, autoIncrement, started,
          unrecorded, gen, env, mnemonics, requests, usdtContract, contractInits,
          reads, readCount, userSessions, clock, allowed, starting, http, closing>>

(***************************************************************************)
(* WalletManager: balance reads and the sweep policy (pure parts).         *)
(***************************************************************************)
\* getTRXBalance: the chain's answer, or 0 when the read throws
getTRXBalance(chainValue, readFails) == IF readFails THEN 0 ELSE chainValue

\* getUSDTBalance: the contract's answer, or 0 when the call throws
getUSDTBalance(chainValue, readFails) == IF readFails THEN 0 ELSE chainValue

\* a getAccountInfo whose reads fail together, as a rejected Promise.all would
getAccountInfoAllOrNothing(trx, trxFails, usdt, usdtFails) ==
    IF trxFails \/ usdtFails
    THEN [trxBalance |-> 0, usdtBalance |-> 0]
    ELSE [trxBalance |-> trx, usdtBalance |-> usdt]

\* getAccountInfo: both reads, each failing on its own
getAccountInfo(trx, trxFails, usdt, usdtFails) ==
    [trxBalance  |-> getTRXBalance(trx, trxFails),
     usdtBalance |-> getUSDTBalance(usdt, usdtFails)]

\* decryptPrivateKey throws on a ciphertext that does not decrypt to UTF-8
DecryptThrows(private_key_encrypted) == private_key_encrypted = "corrupt"

\* performSweep: accountInfo.usdtBalance >= MIN_SWEEP_AMOUNT
SweepGate(accountInfo) == accountInfo.usdtBalance >= MinSweepAmount

\* sweepToMasterWallet: usdtBalance > MIN_SWEEP_AMOUNT
UsdtAboveMinimum(usdtBalance) == usdtBalance > MinSweepAmount

\* a sweep that does not look at the gas reserve
HasGasUnchecked(trxBalance) == trxBalance >= 0

\* sweepToMasterWallet: trxBalance >= 15
HasGas(trxBalance) == trxBalance >= MinGasReserve

\* sweepToMasterWallet: trxToSweep = trxBalance - 1
TrxToSweep(trxBalance) == trxBalance - DustReserve

\* sweepToMasterWallet: trxToSweep > 0.1, as IEEE-754 doubles evaluate it.
\* On every balance the chain can report (a whole number of sun, and so on
\* every hundredth) the double comparison agrees with the exact one, except
\* at 1.1: 1.1 - 1 evaluates to 0.10000000000000009, which is > 0.1.
TrxAboveFloor(trxBalance) == TrxToSweep(trxBalance) >= MinNativeSweep

(***************************************************************************)
(* The locals of one generate-address request.                             *)
(***************************************************************************)
\* const user = null
NoUser == [id |-> 0, telegram_id |-> 0]

\* the requests that may be in progress together
Reqs == {"r1", "r2"}

IdleRequest ==
    [pc              |-> "idle",
     kind            |-> "none",   \* "api": POST /api/generate-address,
                                   \* "bot": handleGenerate
     userId          |-> 0,        \* the telegram id of the caller
     user            |-> NoUser,   \* const user / let user
     derivationIndex |-> 0,
     address         |-> <<>>]     \* walletData.address

(***************************************************************************)
(* The balance reads, the rate limiter and the admin route at rest.        *)
(***************************************************************************)
\* the callers of getAccountInfo that may be in progress together
Readers == {"a", "b"}

\* no getAccountInfo call in progress
IdleRead == [pc |-> "idle"]

\* a getAccountInfo call: its two reads, what the chain answered to each
\* (trx, usdt), which of them failed, and what the call returned
NewRead ==
    [pc         |-> "promiseAll",
     trxRead    |-> "idle",     \* getTRXBalance: "getBalance", "done"
     usdtRead   |-> "idle",     \* getUSDTBalance: "initializeContract",
                                \* "balanceOf", "done"
     trx        |-> 0,
     usdt       |-> 0,
     trxFails   |-> FALSE,
     usdtFails  |-> FALSE,
     result     |-> [trxBalance |-> 0, usdtBalance |-> 0]]

\* the senders of bot commands: a stored user and a new one
Senders == {9, 5}

\* this.userSessions.get(userId) is undefined
NoSession == [lastCommand |-> 0, commandCount |-> 0]

\* process.env.ADMIN_API_KEY is not set, or the request body has no adminKey
Undefined == "undefined"

\* no POST /api/sweep request was made yet (status 0: no answer sent)
NoRequest == [adminKey |-> Undefined, status |-> 0]

\* the wallet manager just constructed (its initializeContract() call is in
\* progress), the bot handler just constructed, no request made
InitRest ==
    /\ usdtContract = FALSE
    /\ contractInits = "pending"
    /\ reads = [r \in Readers |-> IdleRead]
    /\ readCount = 0
    /\ userSessions = [u \in {} |-> NoSession]
    /\ clock = 0
    /\ allowed = [u \in {} |-> <<>>]
    /\ starting = EmptyBag
    /\ http = NoRequest
    /\ closing = FALSE

(***************************************************************************)
(* The locals of one performSweep invocation.                              *)
(***************************************************************************)
NoInfo == [trxBalance |-> 0, usdtBalance |-> 0]

Idle ==
    [pc               |-> "idle",
     addresses        |-> <<>>,    \* const addresses (rows listed)
     i                |-> 0,       \* position of the for loop
     accountInfo      |-> NoInfo,  \* performSweep's accountInfo
     trxBalance       |-> 0,       \* sweepToMasterWallet's trxBalance
     usdtBalance      |-> 0,       \* sweepToMasterWallet's usdtBalance
     transactions     |-> <<>>,    \* sweepToMasterWallet's transactions
     totalSwept       |-> 0,       \* sweepToMasterWallet's totalSwept
     j                |-> 0,       \* position of the record loop
     user             |-> NoUser,  \* performSweep's user
     totalSweptAmount |-> 0,
     errorCount       |-> 0,
     evaluated        |-> {},      \* history: ids whose balances were read
     submitted        |-> <<>>,    \* history: transfers submitted from the
                                   \* current address, in order
     swept            |-> {},      \* history: ids a transfer was submitted from
     sent             |-> 0,       \* history: sum of the amounts of the
                                   \* transfers the chain accepted
     refused          |-> 0,       \* history: inserts refused as duplicates
     failed           |-> {},      \* history: ids whose iteration was caught
     accepted         |-> {},      \* history: the transfers the chain accepted,
                                   \* each with its source address
     rejected         |-> 0,       \* history: inserts the store did not accept
     notified         |-> <<>>,    \* history: the bot.sendMessage calls made,
                                   \* each with the address it reports on
     undelivered      |-> {},      \* history: ids whose notification failed
     usdtRead         |-> "idle",  \* getUSDTBalance of the getAccountInfo call
                                   \* awaited: "initializeContract",
                                   \* "balanceOf", "threw"
     openCall         |-> FALSE]   \* the store call it awaits was issued before
                                   \* database.close() was called

\* the row the for loop is at
Current(c) == c.addresses[c.i]

\* the end of one iteration of the for loop (after the delay, or after the
\* catch): the next address, or the end of the loop
NextAddress(c) ==
    LET fresh == [c EXCEPT !.accountInfo = NoInfo, !.trxBalance = 0,
                           !.usdtBalance = 0, !.transactions = <<>>,
                           !.totalSwept = 0, !.j = 0, !.submitted = <<>>,
                           !.user = NoUser]
    IN  IF c.i < Len(c.addresses)
        THEN [fresh EXCEPT !.i = c.i + 1, !.pc = "getAccountInfo"]
        ELSE [fresh EXCEPT !.i = c.i + 1, !.pc = "returned"]

\* a catch that hands the error on to the critical catch of performSweep
CatchAddressErrorRethrows(c) ==
    [c EXCEPT !.errorCount = @ + 1,
              !.failed = @ \cup {Current(c).id},
              !.pc = "threw"]

\* a catch that gives up the remaining addresses
CatchAddressErrorAborts(c) ==
    [c EXCEPT !.errorCount = @ + 1,
              !.failed = @ \cup {Current(c).id},
              !.i = Len(c.addresses) + 1,
              !.pc = "returned"]

\* catch (error) { errorCount++ } of the for loop
CatchAddressError(c) ==
    NextAddress([c EXCEPT !.errorCount = @ + 1,
                          !.failed = @ \cup {Current(c).id}])

\* a sweep that comes back to the fungible-token transfer after the native
\* one, when the token balance is at the minimum
AfterSweepThenUsdt(c) ==
    IF /\ \A k \in 1..Len(c.submitted) : c.submitted[k] # "USDT"
       /\ c.usdtBalance >= MinSweepAmount
       /\ HasGas(c.trxBalance)
    THEN [c EXCEPT !.pc = "transferUSDT",
                   !.submitted = Append(@, "USDT"),
                   !.swept = @ \cup {Current(c).id}]
    ELSE IF Len(c.transactions) > 0
         THEN [c EXCEPT !.totalSweptAmount = @ + c.totalSwept,
                        !.j = 1,
                        !.pc = "createTransaction"]
         ELSE [c EXCEPT !.pc = "delay"]

\* performSweep after sweepToMasterWallet returned its result
AfterSweep(c) ==
    IF Len(c.transactions) > 0
    THEN [c EXCEPT !.totalSweptAmount = @ + c.totalSwept,
                   !.j = 1,
                   !.pc = "createTransaction"]
    ELSE [c EXCEPT !.pc = "delay"]

\* sweepToMasterWallet: "Sweep remaining TRX (keep 1 TRX for future gas)"
TrxPhase(c) ==
    IF TrxAboveFloor(c.trxBalance)
    THEN [c EXCEPT !.pc = "transferTRX",
                   !.submitted = Append(@, "TRX"),
                   !.swept = @ \cup {Current(c).id}]
    ELSE AfterSweep(c)

\* a sweep that leaves an address alone once its gas gate failed
UsdtPhaseSkipsAddress(c) ==
    IF UsdtAboveMinimum(c.usdtBalance) /\ HasGas(c.trxBalance)
    THEN [c EXCEPT !.pc = "transferUSDT",
                   !.submitted = Append(@, "USDT"),
                   !.swept = @ \cup {Current(c).id}]
    ELSE IF c.usdtBalance >= MinSweepAmount /\ ~HasGas(c.trxBalance)
         THEN AfterSweep(c)
         ELSE TrxPhase(c)

\* sweepToMasterWallet: "Sweep USDT first (if available)"
UsdtPhase(c) ==
    IF UsdtAboveMinimum(c.usdtBalance) /\ HasGas(c.trxBalance)
    THEN [c EXCEPT !.pc = "transferUSDT",
                   !.submitted = Append(@, "USDT"),
                   !.swept = @ \cup {Current(c).id}]
    ELSE TrxPhase(c)

\* the entry of one transactions.push({type, amount, txHash, status})
SweepTx(type, amount, txHash) ==
    [type |-> type, amount |-> amount, txHash |-> txHash, status |-> "pending"]

(***************************************************************************)
(* Database: the transactions table.                                       *)
(***************************************************************************)
\* a table without the UNIQUE index
UniqueViolationIgnored(table, txHash) == FALSE

\* tx_hash VARCHAR(255) UNIQUE NOT NULL: the INSERT is refused
UniqueViolation(table, txHash) ==
    \E k \in 1..Len(table) : table[k].tx_hash = txHash

\* the row INSERT INTO transactions adds
TransactionRow(id, address, tx) ==
    [id           |-> id,
     address_id   |-> address.id,
     tx_hash      |-> tx.txHash,
     from_address |-> address.address,
     to_address   |-> MasterAddress,
     amount       |-> tx.amount,
     token        |-> tx.type,
     tx_type      |-> "sweep",
     status       |-> tx.status]

(***************************************************************************)
(* TRC20WalletServer: the stats and the steps of performSweep.             *)
(***************************************************************************)
\* this.sweepStats = {...}: "Update sweep stats"
UpdateStats(stats, c) ==
    [totalSwept    |-> stats.totalSwept + c.totalSweptAmount,
     lastSweepTime |-> stats.sweepCount + 1,
     sweepCount    |-> stats.sweepCount + 1,
     errors        |-> stats.errors + c.errorCount]

\* the pcs at which an invocation awaits getAccountInfo
ReadCalls == {"getAccountInfo", "sweepGetAccountInfo"}

\* getAccountInfo is called where the step leaves invocation c2: its
\* getUSDTBalance awaits initializeContract() if (!this.usdtContract), else
\* balanceOf(address).call()
GetUSDTBalanceCalled(c2) ==
    IF c2.pc \in ReadCalls
    THEN IF usdtContract THEN "balanceOf" ELSE "initializeContract"
    ELSE "idle"

\* one step of caller p's invocation: its locals become c2, and when the step
\* leaves the for loop the stats are updated in the same step
Step(p, c2) ==
    /\ cyc' = [cyc EXCEPT ![p] = [c2 EXCEPT !.openCall = FALSE,
                                            !.usdtRead = GetUSDTBalanceCalled(c2)]]
    /\ sweepStats' = IF c2.pc = "returned"
                     THEN UpdateStats(sweepStats, c2)
                     ELSE sweepStats

\* the pcs at which an invocation awaits a call on the database pool
StoreCalls ==
    {"getAllActiveAddresses", "createTransaction", "getUserByTelegramId",
     "sendNotification"}

\* what the store call caller p awaits can settle to: once database.close()
\* was called the pool rejects every call issued afterwards ("Pool is
\* closed."), a call issued before may still be served
StoreAnswers(p) ==
    IF closing /\ ~cyc[p].openCall THEN {FALSE} ELSE BOOLEAN

\* cron.schedule(`*/${sweepInterval} * * * *`, ...) fires: the callback calls
\* performSweep, which awaits database.getAllActiveAddresses()
CronTick ==
    /\ cyc["cron"].pc = "idle"
    /\ started < MaxCycles
    /\ started' = started + 1
    /\ cyc' = [cyc EXCEPT !["cron"] = [Idle EXCEPT !.pc = "getAllActiveAddresses"]]
    /\ UNCHANGED <<sweepStats, users, usersAutoIncrement, addresses, transactions, autoIncrement,
                   unrecorded, genVars, restVars>>

\* the adminKey of a request body: absent, or a key (the configured one when
\* ADMIN_API_KEY is set, a key nobody configured when it is not)
RequestKeys == {Undefined, "k1"}

\* POST /api/sweep arrives: 401 if (adminKey !== process.env.ADMIN_API_KEY),
\* else performSweep is called and awaits database.getAllActiveAddresses()
ApiSweep ==
    /\ \E adminKey \in RequestKeys :
         IF adminKey # env.ADMIN_API_KEY
         THEN /\ http' = [adminKey |-> adminKey, status |-> 401]
              /\ UNCHANGED <<cyc, started>>
         ELSE /\ cyc["api"].pc = "idle"
              /\ started < MaxCycles
              /\ started' = started + 1
              /\ cyc' = [cyc EXCEPT !["api"] = [Idle EXCEPT !.pc = "getAllActiveAddresses"]]
              /\ http' = [adminKey |-> adminKey, status |-> 0]
    /\ UNCHANGED <<sweepStats, users, usersAutoIncrement, addresses, transactions, autoIncrement, unrecorded,
                   genVars, readVars, botVars, closing>>

\* getAllActiveAddresses settles: the loop starts, or the critical catch
GetAllActiveAddresses(p) ==
    /\ cyc[p].pc = "getAllActiveAddresses"
    /\ \E ok \in StoreAnswers(p) :
         IF ok
         THEN Step(p, NextAddress([cyc[p] EXCEPT !.addresses = addresses]))
         ELSE /\ cyc' = [cyc EXCEPT ![p].pc = "threw"]
              /\ sweepStats' = [sweepStats EXCEPT !.errors = @ + 1]
    /\ UNCHANGED <<users, usersAutoIncrement, addresses, transactions, autoIncrement, started, unrecorded, genVars, restVars>>

\* a write to this.usdtContract: the handle contract().at() resolved to
SetContract(ok) == usdtContract' = (usdtContract \/ ok)

\* the initializeContract() call of the constructor settles
ConstructorInitSettles ==
    /\ contractInits = "pending"
    /\ contractInits' = "done"
    /\ \E ok \in BOOLEAN : SetContract(ok)
    /\ UNCHANGED <<sweepStats, cyc, users, usersAutoIncrement, addresses, transactions, autoIncrement, started,
                   unrecorded, genVars, reads, readCount, botVars, http, closing>>

\* the initializeContract() call of getUSDTBalance settles inside a
\* getAccountInfo of the sweep: the handle is set or the error is logged; then
\* this.usdtContract.balanceOf(address).call() is awaited, or throws at once
\* on a handle still undefined
InitializeContract(p) ==
    /\ cyc[p].pc \in ReadCalls
    /\ cyc[p].usdtRead = "initializeContract"
    /\ \E ok \in BOOLEAN :
         /\ SetContract(ok)
         /\ cyc' = [cyc EXCEPT ![p].usdtRead = IF usdtContract \/ ok
                                               THEN "balanceOf"
                                               ELSE "threw"]
    /\ UNCHANGED <<sweepStats, users, usersAutoIncrement, addresses, transactions, autoIncrement, started,
                   unrecorded, genVars, contractInits, reads, readCount, botVars, http,
                   closing>>

\* walletManager.getAccountInfo(address.address) settles in performSweep
\* (getBalance and balanceOf have settled, or thrown); when the gate passes
\* sweepToMasterWallet is entered: it decrypts the key and awaits its own
\* getAccountInfo (accountInfo is not read again)
GetAccountInfo(p) ==
    /\ cyc[p].pc = "getAccountInfo"
    /\ cyc[p].usdtRead \in {"balanceOf", "threw"}
    /\ \E trx \in TrxChoices, usdt \in UsdtChoices, tf \in BOOLEAN, uf \in BOOLEAN :
         LET info == getAccountInfo(trx, tf, usdt, uf \/ cyc[p].usdtRead = "threw")
             c    == [cyc[p] EXCEPT !.accountInfo = info,
                                    !.evaluated = @ \cup {Current(cyc[p]).id}]
         IN  IF SweepGate(info)
             THEN IF DecryptThrows(Current(c).private_key_encrypted)
                  THEN Step(p, CatchAddressError(c))
                  ELSE Step(p, [c EXCEPT !.pc = "sweepGetAccountInfo",
                                         !.accountInfo = NoInfo])
             ELSE Step(p, [c EXCEPT !.pc = "delay"])
    /\ UNCHANGED <<users, usersAutoIncrement, addresses, transactions, autoIncrement, started, unrecorded,
                   genVars, restVars>>

\* this.getAccountInfo(address) settles in sweepToMasterWallet, the chain
\* reporting a native balance of trxs and a token balance of usdts
SweepReads(p, trxs, usdts) ==
    /\ cyc[p].pc = "sweepGetAccountInfo"
    /\ cyc[p].usdtRead \in {"balanceOf", "threw"}
    /\ \E trx \in trxs, usdt \in usdts, tf \in BOOLEAN, uf \in BOOLEAN :
         LET info == getAccountInfo(trx, tf, usdt, uf \/ cyc[p].usdtRead = "threw")
         IN  Step(p, UsdtPhase([cyc[p] EXCEPT !.trxBalance = info.trxBalance,
                                              !.usdtBalance = info.usdtBalance]))
    /\ UNCHANGED <<users, usersAutoIncrement, addresses, transactions, autoIncrement, started, unrecorded,
                   genVars, restVars>>

\* this.getAccountInfo(address) settles in sweepToMasterWallet
SweepGetAccountInfo(p) == SweepReads(p, TrxChoices, UsdtChoices)

\* the same, for an address whose native balance is around the dust floor
SweepGetAccountInfoNearFloor(p) == SweepReads(p, NearFloor, UsdtChoices)

\* the txids held by the store or by an invocation in progress
UsedHashes ==
    {transactions[k].tx_hash : k \in 1..Len(transactions)}
    \cup UNION {{cyc[q].transactions[k].txHash : k \in 1..Len(cyc[q].transactions)} :
                   q \in Procs}

\* usdtTx.txid, trxTx.txid: the chain client answers a submission with a txid
\* that is held already or with a new one; txids being interchangeable, the
\* new ones are numbered in the order they appear
ChainHashes == {h \in Hashes : \A g \in 1..(h - 1) : g \in UsedHashes}

\* usdtTx.txid || usdtTx.transaction?.txID: the txid of the answer, or
\* undefined when the answer carries neither field (send() resolving to the
\* bare txid string)
TxHashes == ChainHashes \cup {NoHash}

\* a sweep that submits the fungible-token transfer once more after it failed
TransferUSDTRetries(p) ==
    /\ cyc[p].pc = "transferUSDT"
    /\ \E ok \in BOOLEAN, h \in TxHashes :
         LET c == cyc[p]
         IN  IF ok
             THEN Step(p, TrxPhase([c EXCEPT
                     !.transactions = Append(@, SweepTx("USDT", c.usdtBalance, h)),
                     !.totalSwept = @ + c.usdtBalance,
                     !.sent = @ + c.usdtBalance,
                     !.accepted = @ \cup {[from_address |-> Current(c).address,
                                           tx |-> SweepTx("USDT", c.usdtBalance, h)]}]))
             ELSE IF Len(c.submitted) < 2
                  THEN Step(p, [c EXCEPT !.submitted = Append(@, "USDT")])
                  ELSE Step(p, TrxPhase(c))
    /\ UNCHANGED <<users, usersAutoIncrement, addresses, transactions, autoIncrement, started, unrecorded, genVars, restVars>>

\* this.transferUSDT(privateKey, masterAddress, usdtBalance) settles
TransferUSDT(p) ==
    /\ cyc[p].pc = "transferUSDT"
    /\ \E ok \in BOOLEAN, h \in TxHashes :
         LET c == cyc[p]
         IN  IF ok
             THEN Step(p, TrxPhase([c EXCEPT
                     !.transactions = Append(@, SweepTx("USDT", c.usdtBalance, h)),
                     !.totalSwept = @ + c.usdtBalance,
                     !.sent = @ + c.usdtBalance,
                     !.accepted = @ \cup {[from_address |-> Current(c).address,
                                           tx |-> SweepTx("USDT", c.usdtBalance, h)]}]))
             ELSE Step(p, TrxPhase(c))
    /\ UNCHANGED <<users, usersAutoIncrement, addresses, transactions, autoIncrement, started, unrecorded, genVars, restVars>>

\* this.transferTRX(privateKey, masterAddress, trxToSweep) settles
TransferTRX(p) ==
    /\ cyc[p].pc = "transferTRX"
    /\ \E ok \in BOOLEAN, h \in TxHashes :
         LET c == cyc[p]
         IN  IF ok
             THEN Step(p, AfterSweep([c EXCEPT
                     !.transactions = Append(@, SweepTx("TRX", TrxToSweep(c.trxBalance), h)),
                     !.sent = @ + TrxToSweep(c.trxBalance),
                     !.accepted = @ \cup {[from_address |-> Current(c).address,
                                           tx |-> SweepTx("TRX", TrxToSweep(c.trxBalance), h)]}]))
             ELSE Step(p, AfterSweep(c))
    /\ UNCHANGED <<users, usersAutoIncrement, addresses, transactions, autoIncrement, started, unrecorded, genVars, restVars>>

\* database.createTransaction(...) settles for sweepResult.transactions[j]
CreateTransaction(p) ==
    /\ cyc[p].pc = "createTransaction"
    /\ \E storeOk \in StoreAnswers(p) :
         LET c  == cyc[p]
             tx == c.transactions[c.j]
         IN  IF tx.txHash = NoHash
             THEN \* pool.execute throws on the undefined bind parameter
                  \* before the statement reaches the store
                  /\ UNCHANGED <<transactions, autoIncrement, unrecorded>>
                  /\ Step(p, CatchAddressError(c))
             ELSE IF storeOk /\ ~UniqueViolation(transactions, tx.txHash)
             THEN /\ transactions' = Append(transactions,
                                            TransactionRow(autoIncrement, Current(c), tx))
                  /\ autoIncrement' = autoIncrement + 1
                  /\ unrecorded' = unrecorded
                  /\ Step(p, IF c.j < Len(c.transactions)
                             THEN [c EXCEPT !.j = c.j + 1]
                             ELSE [c EXCEPT !.pc = "getUserByTelegramId"])
             ELSE /\ UNCHANGED <<transactions, autoIncrement>>
                  \* an insert lost to the closing pool leaves the accepted
                  \* transfers of the address without their records
                  /\ unrecorded' = IF closing /\ ~storeOk
                                   THEN unrecorded \cup {Current(c).id}
                                   ELSE unrecorded
                  /\ Step(p, CatchAddressError(
                         IF UniqueViolation(transactions, tx.txHash)
                         THEN [c EXCEPT !.refused = @ + 1, !.rejected = @ + 1]
                         ELSE [c EXCEPT !.rejected = @ + 1]))
    /\ UNCHANGED <<users, usersAutoIncrement, addresses, started, genVars, restVars>>

\* database.getUserByTelegramId(address.user_id) settles
GetUserByTelegramId(p) ==
    /\ cyc[p].pc = "getUserByTelegramId"
    /\ \E storeOk \in StoreAnswers(p) :
         LET c == cyc[p]
         IN  IF ~storeOk
             THEN Step(p, CatchAddressError(c))
             ELSE IF \E u \in users : u.telegram_id = Current(c).user_id
                  THEN Step(p, [c EXCEPT
                          !.user = CHOOSE u \in users : u.telegram_id = Current(c).user_id,
                          !.pc = "sendNotification"])
                  ELSE Step(p, [c EXCEPT !.pc = "delay"])
    /\ UNCHANGED <<users, usersAutoIncrement, addresses, transactions, autoIncrement, started, unrecorded, genVars, restVars>>

\* a sendNotification without its try/catch: the error reaches performSweep
SendNotificationFailedThrows(c) ==
    CatchAddressError([c EXCEPT !.undelivered = @ \cup {Current(c).id}])

\* sendNotification: catch (error) { console.error(...) }
SendNotificationFailed(c) ==
    [c EXCEPT !.undelivered = @ \cup {Current(c).id}, !.pc = "delay"]

\* telegramBot.sendNotification(user.telegram_id, ...) was called: its own
\* database.getUserByTelegramId(userId) settles, and bot.sendMessage is called
SendNotification(p) ==
    /\ cyc[p].pc = "sendNotification"
    /\ \E storeOk \in StoreAnswers(p) :
         LET c == cyc[p]
         IN  IF ~storeOk
             THEN Step(p, SendNotificationFailed(c))
             ELSE IF \E u \in users : u.telegram_id = c.user.telegram_id
                  THEN Step(p, [c EXCEPT
                          !.notified = Append(@, [address_id  |-> Current(c).id,
                                                  telegram_id |-> c.user.telegram_id]),
                          !.pc = "sendMessage"])
                  ELSE Step(p, [c EXCEPT !.pc = "delay"])
    /\ UNCHANGED <<users, usersAutoIncrement, addresses, transactions, autoIncrement, started, unrecorded, genVars, restVars>>

\* this.bot.sendMessage(userId, message, options) settles
SendMessage(p) ==
    /\ cyc[p].pc = "sendMessage"
    /\ \E delivered \in BOOLEAN :
         IF delivered
         THEN Step(p, [cyc[p] EXCEPT !.pc = "delay"])
         ELSE Step(p, SendNotificationFailed(cyc[p]))
    /\ UNCHANGED <<users, usersAutoIncrement, addresses, transactions, autoIncrement, started, unrecorded, genVars, restVars>>

\* a delay whose timer leaves the loop waiting where it was
DelayNeverElapses(p) ==
    /\ cyc[p].pc = "delay"
    /\ Step(p, cyc[p])
    /\ UNCHANGED <<users, usersAutoIncrement, addresses, transactions, autoIncrement, started, unrecorded, genVars, restVars>>

\* the 1000 ms delay elapses
Delay(p) ==
    /\ cyc[p].pc = "delay"
    /\ Step(p, NextAddress(cyc[p]))
    /\ UNCHANGED <<users, usersAutoIncrement, addresses, transactions, autoIncrement, started, unrecorded, genVars, restVars>>

\* performSweep settles in its caller. The cron callback ends (a rejection is
\* only logged by the unhandledRejection handler). The route answers
\* res.json({success: true, ...}), or res.status(500) from its catch, on the
\* res of the request that called performSweep; a request that arrived since
\* (answered 401 at once) keeps its answer
Respond(p) ==
    /\ cyc[p].pc \in {"returned", "threw"}
    /\ cyc' = [cyc EXCEPT ![p] = Idle]
    /\ http' = IF p = "api" /\ http.status = 0
               THEN [http EXCEPT !.status = IF cyc[p].pc = "returned"
                                            THEN 200 ELSE 500]
               ELSE http
    /\ UNCHANGED <<sweepStats, users, usersAutoIncrement, addresses, transactions, autoIncrement, started, unrecorded,
                   genVars, readVars, botVars, closing>>

(***************************************************************************)
(* The sweep engine.                                                       *)
(***************************************************************************)
\* two users; the telegram_id of the first equals the id of the second, so
\* that getUserByTelegramId(address.user_id) finds a row for the addresses of
\* user 2 and none for those of user 1
UserRows ==
    {[id |-> 1, telegram_id |-> 2], [id |-> 2, telegram_id |-> 9]}

AddressRow(id, user_id, address, key) ==
    [id |-> id, user_id |-> user_id, address |-> address, private_key_encrypted |-> key]

\* the process after construction, over a store that holds one active address
Init ==
    /\ sweepStats = [totalSwept |-> 0, lastSweepTime |-> 0, sweepCount |-> 0, errors |-> 0]
    /\ cyc = [p \in Procs |-> Idle]
    /\ users = UserRows
    /\ usersAutoIncrement = Cardinality(UserRows) + 1
    /\ \E key \in {"enc1", "corrupt"} :
         addresses = <<AddressRow(1, 2, "TAddr1", key)>>
    /\ transactions = <<>>
    /\ autoIncrement = Len(transactions) + 1
    /\ started = 0
    /\ unrecorded = {}
    /\ gen = [r \in Reqs |-> IdleRequest]
    /\ env = [HD_WALLET_MNEMONIC |-> TRUE, ADMIN_API_KEY |-> "k1"]
    /\ mnemonics = 0
    /\ requests = 0
    /\ InitRest

\* the process before the last cycle of the budget, over a store that holds
\* two active addresses (the first of either user, the second of user 2) and,
\* possibly, the record of an earlier sweep
InitBatch ==
    /\ sweepStats = [totalSwept |-> 0, lastSweepTime |-> 0, sweepCount |-> 0, errors |-> 0]
    /\ cyc = [p \in Procs |-> Idle]
    /\ users = UserRows
    /\ usersAutoIncrement = Cardinality(UserRows) + 1
    /\ \E key \in {"enc1", "corrupt"}, owner \in {1, 2} :
         addresses = <<AddressRow(1, owner, "TAddr1", key), AddressRow(2, 2, "TAddr2", "enc2")>>
    /\ \E earlier \in BOOLEAN :
         transactions =
            IF earlier
            THEN <<TransactionRow(1, AddressRow(2, 2, "TAddr2", "enc2"),
                                  SweepTx("TRX", 900, 1))>>
            ELSE <<>>
    /\ autoIncrement = Len(transactions) + 1
    /\ started = MaxCycles - 1
    /\ unrecorded = {}
    /\ gen = [r \in Reqs |-> IdleRequest]
    /\ env = [HD_WALLET_MNEMONIC |-> TRUE, ADMIN_API_KEY |-> "k1"]
    /\ mnemonics = 0
    /\ requests = 0
    /\ InitRest

Next ==
    \/ ConstructorInitSettles
    \/ CronTick
    \/ ApiSweep
    \/ \E p \in Procs : GetAllActiveAddresses(p)
    \/ \E p \in Procs : InitializeContract(p)
    \/ \E p \in Procs : GetAccountInfo(p)
    \/ \E p \in Procs : SweepGetAccountInfo(p)
    \/ \E p \in Procs : TransferUSDT(p)
    \/ \E p \in Procs : TransferTRX(p)
    \/ \E p \in Procs : CreateTransaction(p)
    \/ \E p \in Procs : GetUserByTelegramId(p)
    \/ \E p \in Procs : SendNotification(p)
    \/ \E p \in Procs : SendMessage(p)
    \/ \E p \in Procs : Delay(p)
    \/ \E p \in Procs : Respond(p)

\* the steps of performSweep over an address that holds little native token
NextDust ==
    \/ ConstructorInitSettles
    \/ CronTick
    \/ ApiSweep
    \/ \E p \in Procs : GetAllActiveAddresses(p)
    \/ \E p \in Procs : InitializeContract(p)
    \/ \E p \in Procs : GetAccountInfo(p)
    \/ \E p \in Procs : SweepGetAccountInfoNearFloor(p)
    \/ \E p \in Procs : TransferUSDT(p)
    \/ \E p \in Procs : TransferTRX(p)
    \/ \E p \in Procs : CreateTransaction(p)
    \/ \E p \in Procs : GetUserByTelegramId(p)
    \/ \E p \in Procs : SendNotification(p)
    \/ \E p \in Procs : SendMessage(p)
    \/ \E p \in Procs : Delay(p)
    \/ \E p \in Procs : Respond(p)

\* the process before the last cycle of the budget, over one active address
InitDust ==
    /\ sweepStats = [totalSwept |-> 0, lastSweepTime |-> 0, sweepCount |-> 0, errors |-> 0]
    /\ cyc = [p \in Procs |-> Idle]
    /\ users = UserRows
    /\ usersAutoIncrement = Cardinality(UserRows) + 1
    /\ addresses = <<AddressRow(1, 2, "TAddr1", "enc1")>>
    /\ transactions = <<>>
    /\ autoIncrement = Len(transactions) + 1
    /\ started = MaxCycles - 1
    /\ unrecorded = {}
    /\ gen = [r \in Reqs |-> IdleRequest]
    /\ env = [HD_WALLET_MNEMONIC |-> TRUE, ADMIN_API_KEY |-> "k1"]
    /\ mnemonics = 0
    /\ requests = 0
    /\ InitRest

(***************************************************************************)
(* Address generation: POST /api/generate-address and handleGenerate.      *)
(***************************************************************************)
\* a limiter that blocks only once the count has passed the maximum
isRateLimitedPastMaximum(userSession, now) ==
    IF userSession = NoSession
    THEN [limited |-> FALSE, session |-> [lastCommand |-> now, commandCount |-> 1]]
    ELSE IF now - userSession.lastCommand > RateWindow
         THEN [limited |-> FALSE, session |-> [lastCommand |-> now, commandCount |-> 1]]
         ELSE IF userSession.commandCount > MaxCommandCount
              THEN [limited |-> TRUE, session |-> userSession]
              ELSE [limited |-> FALSE,
                    session |-> [lastCommand  |-> now,
                                 commandCount |-> userSession.commandCount + 1]]

\* isRateLimited(userId) at Date.now() = now, userSession being
\* this.userSessions.get(userId): what it returns and the session it leaves
isRateLimited(userSession, now) ==
    IF userSession = NoSession
    THEN [limited |-> FALSE, session |-> [lastCommand |-> now, commandCount |-> 1]]
    ELSE IF now - userSession.lastCommand > RateWindow
         THEN [limited |-> FALSE, session |-> [lastCommand |-> now, commandCount |-> 1]]
         ELSE IF userSession.commandCount >= MaxCommandCount
              THEN [limited |-> TRUE, session |-> userSession]
              ELSE [limited |-> FALSE,
                    session |-> [lastCommand  |-> now,
                                 commandCount |-> userSession.commandCount + 1]]

\* the times in history not more than RateWindow before now
LastMinute(history, now) ==
    SelectSeq(history, LAMBDA t : t >= now - RateWindow)

\* this.userSessions.get(userId)
SessionOf(u) == IF u \in DOMAIN userSessions THEN userSessions[u] ELSE NoSession

\* the commands of sender u let through during the last minute
AllowedOf(u) == IF u \in DOMAIN allowed THEN allowed[u] ELSE <<>>

\* the writes of one isRateLimited(u) call that returned answer
RateLimiterWrites(u, answer) ==
    /\ userSessions' = [v \in DOMAIN userSessions \cup {u} |->
                           IF v = u THEN answer.session ELSE userSessions[v]]
    /\ allowed' = IF answer.limited
                  THEN allowed
                  ELSE [v \in DOMAIN allowed \cup {u} |->
                           IF v = u THEN Append(AllowedOf(u), clock)
                                    ELSE allowed[v]]

\* the telegram ids requests come from: the two stored users and a new one
TelegramIds == {2, 9, 5}

\* one component of a derivation path; a hardened one is written with an
\* apostrophe
Component(index, hardened) == [index |-> index, hardened |-> hardened]

\* `m/44'/195'/0'/0/${derivationIndex}`, as its components
DerivationPath(derivationIndex) ==
    <<Component(44, TRUE), Component(195, TRUE), Component(0, TRUE),
      Component(0, FALSE), Component(derivationIndex, FALSE)>>

\* HDKey.fromMasterSeed(bip39.mnemonicToSeedSync(mnemonic)): the master key of
\* the mnemonic. The keys the libraries compute (PBKDF2, HMAC-SHA512 and
\* secp256k1) are kept as terms: the mnemonic and the components walked from
\* its master key; two keys are equal exactly when they were computed from
\* the same mnemonic along the same components
fromMasterSeed(mnemonic) == [mnemonic |-> mnemonic, chain |-> <<>>]

\* hdkey.derive(path): one child key derivation per component of the path
RECURSIVE derive(_, _)
derive(hdkey, path) ==
    IF path = <<>>
    THEN hdkey
    ELSE derive([hdkey EXCEPT !.chain = Append(@, Head(path))], Tail(path))

\* this.tronWeb.address.fromPrivateKey(privateKey): the address of the key
fromPrivateKey(privateKey) == [addressOf |-> privateKey]

\* generateHDWallet(derivationIndex): the mnemonic is
\* process.env.HD_WALLET_MNEMONIC (mnemonic 0) or, when that is not set, a
\* new one from bip39.generateMnemonic() (the n-th call returns mnemonic n);
\* the child key at m/44'/195'/0'/0/index is derived from its master key
generateHDWallet(derivationIndex) ==
    LET mnemonic == IF env.HD_WALLET_MNEMONIC THEN 0 ELSE mnemonics + 1
        childKey == derive(fromMasterSeed(mnemonic), DerivationPath(derivationIndex))
    IN  [address         |-> fromPrivateKey(childKey),
         privateKey      |-> childKey,
         derivationIndex |-> derivationIndex,
         derivationPath  |-> DerivationPath(derivationIndex)]

\* the user_id the handler passes to the store: user.id in the API route,
\* user?.id || userId in handleGenerate
OwnerKey(g) ==
    IF g.kind = "bot" /\ g.user = NoUser THEN g.userId ELSE g.user.id

\* getUserAddresses(userId): the active rows of the user
getUserAddresses(table, userId) ==
    {k \in 1..Len(table) : table[k].user_id = userId}

\* address VARCHAR(255) UNIQUE NOT NULL: the INSERT is refused
AddressTaken(table, address) ==
    \E k \in 1..Len(table) : table[k].address = address

\* FOREIGN KEY (user_id) REFERENCES users(id): the INSERT is refused
NoSuchUser(userTable, userId) == \A u \in userTable : u.id # userId

\* the row INSERT INTO addresses adds
GeneratedAddressRow(table, userId, address, derivationIndex) ==
    [id                    |-> Len(table) + 1,
     user_id               |-> userId,
     address               |-> address,
     private_key_encrypted |-> "enc1",
     derivation_index      |-> derivationIndex]

\* one step of request r: its locals become g2
GenStep(r, g2) == gen' = [gen EXCEPT ![r] = g2]

\* INSERT INTO users ... ON DUPLICATE KEY UPDATE for telegram id userId, served
\* by the store: a new row takes the AUTO_INCREMENT value as its id; a row
\* that is there (telegram_id is UNIQUE) is updated and keeps its id. The
\* store reserves the value before it finds the duplicate, so the counter
\* advances either way
createUser(userTable, nextId, userId) ==
    [users         |-> IF \E u \in userTable : u.telegram_id = userId
                       THEN userTable
                       ELSE userTable \cup {[id |-> nextId, telegram_id |-> userId]},
     autoIncrement |-> nextId + 1]

\* a request arrives. POST /api/generate-address with a userId: the route
\* awaits database.getUserByTelegramId(userId). /generate from a chat:
\* handleGenerate calls isRateLimited(userId); over the limit it answers and
\* returns, else it awaits bot.sendMessage(chatId, loading)
GenerateRequest(r) ==
    /\ gen[r].pc = "idle"
    /\ requests < MaxRequests
    /\ requests' = requests + 1
    /\ \E kind \in {"api", "bot"}, userId \in TelegramIds :
         IF kind = "api"
         THEN /\ GenStep(r, [IdleRequest EXCEPT !.pc = "getUserByTelegramId",
                                                !.kind = kind, !.userId = userId])
              /\ UNCHANGED <<userSessions, allowed>>
         ELSE LET answer == isRateLimited(SessionOf(userId), clock)
              IN  /\ RateLimiterWrites(userId, answer)
                  /\ IF answer.limited
                     THEN GenStep(r, IdleRequest)
                     ELSE GenStep(r, [IdleRequest EXCEPT !.pc = "sendLoading",
                                                        !.kind = kind,
                                                        !.userId = userId])
    /\ UNCHANGED <<sweepStats, cyc, users, usersAutoIncrement, addresses, transactions, autoIncrement, started,
                   unrecorded, env, mnemonics, readVars, clock, starting, http,
                   closing>>

\* bot.sendMessage(chatId, loading) settles in handleGenerate: the handler
\* awaits database.getUserByTelegramId(userId), or its catch answers
GenSendLoading(r) ==
    /\ gen[r].pc = "sendLoading"
    /\ \E delivered \in BOOLEAN :
         IF delivered
         THEN GenStep(r, [gen[r] EXCEPT !.pc = "getUserByTelegramId"])
         ELSE GenStep(r, IdleRequest)
    /\ UNCHANGED <<sweepStats, cyc, users, usersAutoIncrement, addresses, transactions, autoIncrement, started,
                   unrecorded, env, mnemonics, requests, restVars>>

\* getUserByTelegramId(userId) settles: the handler goes on to createUser or
\* to getUserAddresses
GenGetUserByTelegramId(r) ==
    /\ gen[r].pc \in {"getUserByTelegramId", "getUserAgain"}
    /\ \E storeOk \in BOOLEAN :
         LET g == gen[r]
         IN  IF ~storeOk
             THEN GenStep(r, IdleRequest)
             ELSE IF \E u \in users : u.telegram_id = g.userId
                  THEN GenStep(r, [g EXCEPT
                          !.user = CHOOSE u \in users : u.telegram_id = g.userId,
                          !.pc = "getUserAddresses"])
                  ELSE GenStep(r, [g EXCEPT !.pc = "createUser"])
    /\ UNCHANGED <<sweepStats, cyc, users, usersAutoIncrement, addresses, transactions, autoIncrement, started,
                   unrecorded, env, mnemonics, requests, restVars>>

\* createUser(userId) settles: INSERT ... ON DUPLICATE KEY UPDATE; the API
\* route reads the user again, handleGenerate goes on with user still null
GenCreateUser(r) ==
    /\ gen[r].pc = "createUser"
    /\ \E storeOk \in BOOLEAN :
         LET g == gen[r]
         IN  IF ~storeOk
             THEN /\ GenStep(r, IdleRequest)
                  /\ UNCHANGED <<users, usersAutoIncrement>>
             ELSE /\ users' = createUser(users, usersAutoIncrement, g.userId).users
                  /\ usersAutoIncrement' =
                        createUser(users, usersAutoIncrement, g.userId).autoIncrement
                  /\ GenStep(r, [g EXCEPT !.pc = IF g.kind = "api"
                                                  THEN "getUserAgain"
                                                  ELSE "getUserAddresses"])
    /\ UNCHANGED <<sweepStats, cyc, addresses, transactions, autoIncrement, started,
                   unrecorded, env, mnemonics, requests, restVars>>

\* getUserAddresses settles: derivationIndex = userAddresses.length, the
\* wallet is derived and encrypted, and createAddress is awaited
GenGetUserAddresses(r) ==
    /\ gen[r].pc = "getUserAddresses"
    /\ \E storeOk \in BOOLEAN :
         LET g     == gen[r]
             index == Cardinality(getUserAddresses(addresses, OwnerKey(g)))
         IN  IF ~storeOk
             THEN /\ GenStep(r, IdleRequest)
                  /\ mnemonics' = mnemonics
             ELSE /\ GenStep(r, [g EXCEPT !.derivationIndex = index,
                                          !.address = generateHDWallet(index).address,
                                          !.pc = "createAddress"])
                  /\ mnemonics' = IF env.HD_WALLET_MNEMONIC
                                  THEN mnemonics
                                  ELSE mnemonics + 1
    /\ UNCHANGED <<sweepStats, cyc, users, usersAutoIncrement, addresses, transactions, autoIncrement, started,
                   unrecorded, env, requests, restVars>>

\* createAddress settles: the row is stored and the handler answers, or the
\* INSERT is refused and the handler's catch answers
GenCreateAddress(r) ==
    /\ gen[r].pc = "createAddress"
    /\ \E storeOk \in BOOLEAN :
         LET g == gen[r]
         IN  /\ addresses' =
                  IF /\ storeOk
                     /\ ~AddressTaken(addresses, g.address)
                     /\ ~NoSuchUser(users, OwnerKey(g))
                  THEN Append(addresses,
                              GeneratedAddressRow(addresses, OwnerKey(g), g.address,
                                                  g.derivationIndex))
                  ELSE addresses
             /\ GenStep(r, IdleRequest)
    /\ UNCHANGED <<sweepStats, cyc, users, usersAutoIncrement, transactions, autoIncrement, started,
                   unrecorded, env, mnemonics, requests, restVars>>

\* the process after construction, over a store without addresses, with or
\* without HD_WALLET_MNEMONIC in its environment
InitGenerate ==
    /\ sweepStats = [totalSwept |-> 0, lastSweepTime |-> 0, sweepCount |-> 0, errors |-> 0]
    /\ cyc = [p \in Procs |-> Idle]
    /\ users = UserRows
    /\ usersAutoIncrement = Cardinality(UserRows) + 1
    /\ addresses = <<>>
    /\ transactions = <<>>
    /\ autoIncrement = Len(transactions) + 1
    /\ started = 0
    /\ unrecorded = {}
    /\ gen = [r \in Reqs |-> IdleRequest]
    /\ env \in {[HD_WALLET_MNEMONIC |-> b, ADMIN_API_KEY |-> "k1"] : b \in BOOLEAN}
    /\ mnemonics = 0
    /\ requests = 0
    /\ InitRest

NextGenerate ==
    \/ \E r \in Reqs : GenerateRequest(r)
    \/ \E r \in Reqs : GenSendLoading(r)
    \/ \E r \in Reqs : GenGetUserByTelegramId(r)
    \/ \E r \in Reqs : GenCreateUser(r)
    \/ \E r \in Reqs : GenGetUserAddresses(r)
    \/ \E r \in Reqs : GenCreateAddress(r)

\* interleaved generate-address requests
SpecGenerate == InitGenerate /\ [][NextGenerate]_vars

(***************************************************************************)
(* Database: the operations on the transactions table, called in any order. *)
(***************************************************************************)
\* status ENUM('pending', 'confirmed', 'failed')
Statuses == {"pending", "confirmed", "failed"}

\* UPDATE transactions SET status = ? WHERE tx_hash = ?
SetStatus(table, txHash, status) ==
    [k \in 1..Len(table) |->
        IF table[k].tx_hash = txHash
        THEN [table[k] EXCEPT !.status = status]
        ELSE table[k]]

\* database.createTransaction(addressId, txHash, ..., status = 'pending'); a
\* call without a txHash throws before it reaches the store
LedgerCreateTransaction ==
    /\ autoIncrement <= MaxInserts
    /\ \E i \in 1..Len(addresses), type \in {"USDT", "TRX"},
          amount \in UsdtChoices, txHash \in Hashes \cup {NoHash},
          status \in Statuses :
         IF txHash = NoHash \/ UniqueViolation(transactions, txHash)
         THEN UNCHANGED <<transactions, autoIncrement>>
         ELSE /\ transactions' =
                    Append(transactions,
                           TransactionRow(autoIncrement, addresses[i],
                                          [SweepTx(type, amount, txHash) EXCEPT
                                              !.status = status]))
              /\ autoIncrement' = autoIncrement + 1
    /\ UNCHANGED <<sweepStats, cyc, users, usersAutoIncrement, addresses, started, unrecorded, genVars, restVars>>

\* database.updateTransactionStatus(txHash, status)
UpdateTransactionStatus ==
    /\ \E txHash \in Hashes, status \in Statuses :
         transactions' = SetStatus(transactions, txHash, status)
    /\ UNCHANGED <<sweepStats, cyc, users, usersAutoIncrement, addresses, autoIncrement, started, unrecorded,
                   genVars, restVars>>

\* the rows DELETE FROM transactions WHERE timestamp < DATE_SUB(NOW(),
\* INTERVAL 90 DAY) AND status = "confirmed" leaves, the first old rows of
\* the table (timestamp DEFAULT CURRENT_TIMESTAMP) being older than 90 days
DeleteOldConfirmed(table, old) ==
    LET Keep(k) == k > old \/ table[k].status # "confirmed"
        kept    == {k \in 1..Len(table) : Keep(k)}
        \* the k-th kept position, in table order
        Nth[n \in 0..Len(table)] ==
            IF n = 0 THEN 0
            ELSE CHOOSE k \in kept :
                    /\ k > Nth[n - 1]
                    /\ \A k2 \in kept : k2 > Nth[n - 1] => k <= k2
    IN  [n \in 1..Cardinality(kept) |-> table[Nth[n]]]

\* cleanupOldData, run by cron.schedule('0 0 * * 0', ...): its DELETE settles
\* (a failure is caught and logged, the table as it was)
CleanupOldData ==
    /\ \E ok \in BOOLEAN, old \in 0..Len(transactions) :
         transactions' = IF ok
                         THEN DeleteOldConfirmed(transactions, old)
                         ELSE transactions
    /\ UNCHANGED <<sweepStats, cyc, users, usersAutoIncrement, addresses, autoIncrement, started, unrecorded,
                   genVars, restVars>>

NextLedger ==
    \/ LedgerCreateTransaction
    \/ UpdateTransactionStatus
    \/ CleanupOldData

\* the store operations on transactions, in any order, over the two addresses
SpecLedger == InitBatch /\ [][NextLedger]_vars

\* this.sweepStats of a new TRC20WalletServer
FreshStats == [totalSwept |-> 0, lastSweepTime |-> 0, sweepCount |-> 0, errors |-> 0]

\* the invocation holds a transfer the chain accepted whose record is not
\* written yet: sweepResult.transactions[j..], or the token transfer while the
\* native one is awaited
HoldsUnrecorded(c) ==
    \/ c.pc = "createTransaction"
    \/ c.pc = "transferTRX" /\ Len(c.transactions) > 0

\* SIGINT or SIGTERM: the handler calls database.close() and awaits it; the
\* invocations in progress go on, over a pool that serves only the calls it
\* holds already
Shutdown ==
    /\ ~closing
    /\ closing' = TRUE
    /\ cyc' = [p \in Procs |->
                 IF cyc[p].pc \in StoreCalls
                 THEN [cyc[p] EXCEPT !.openCall = TRUE]
                 ELSE cyc[p]]
    /\ UNCHANGED <<sweepStats, users, usersAutoIncrement, addresses, transactions, autoIncrement, started,
                   unrecorded, genVars, readVars, botVars, http>>

\* database.close() settles and the handler calls process.exit(0) (when
\* close() rejects the handler ends there and the process stays); the process
\* is then started again over the same store, with nothing of its memory
ProcessExit ==
    /\ closing
    /\ closing' = FALSE
    /\ cyc' = [p \in Procs |-> Idle]
    /\ gen' = [r \in Reqs |-> IdleRequest]
    /\ sweepStats' = FreshStats
    /\ usdtContract' = FALSE
    /\ contractInits' = "pending"
    /\ reads' = [r \in Readers |-> IdleRead]
    /\ userSessions' = [u \in {} |-> NoSession]
    /\ allowed' = [u \in {} |-> <<>>]
    /\ starting' = EmptyBag
    /\ http' = NoRequest
    /\ unrecorded' = unrecorded \cup
          {Current(cyc[p]).id : p \in {q \in Procs : HoldsUnrecorded(cyc[q])}}
    /\ UNCHANGED <<users, usersAutoIncrement, addresses, transactions, autoIncrement, started, env, mnemonics,
                   requests, readCount, clock>>

\* the chain confirms the transfer accepted from address a
ConfirmOnChain(a) ==
    /\ a \in unrecorded
    /\ unrecorded' = unrecorded \ {a}
    /\ UNCHANGED <<sweepStats, cyc, users, usersAutoIncrement, addresses, transactions, autoIncrement, started, genVars, restVars>>

\* the sweep engine of a process that may be stopped and started again
NextRestart ==
    \/ Next
    \/ Shutdown
    \/ ProcessExit
    \/ \E a \in unrecorded : ConfirmOnChain(a)

(***************************************************************************)
(* WalletManager: the balance reads and the token contract handle.         *)
(***************************************************************************)
\* one step of reader r's getAccountInfo call: its locals become d2
ReadStep(r, d2) == reads' = [reads EXCEPT ![r] = d2]

\* getAccountInfo(address) is called: Promise.all starts getTRXBalance, which
\* awaits tronWeb.trx.getBalance, and getUSDTBalance, which awaits
\* initializeContract() if (!this.usdtContract), else balanceOf(address).call()
GetAccountInfoCalled(r) ==
    /\ reads[r].pc = "idle"
    /\ readCount < MaxReads
    /\ readCount' = readCount + 1
    /\ ReadStep(r, [NewRead EXCEPT !.trxRead = "getBalance",
                                   !.usdtRead = IF usdtContract
                                                THEN "balanceOf"
                                                ELSE "initializeContract"])
    /\ UNCHANGED <<sweepStats, cyc, users, usersAutoIncrement, addresses, transactions, autoIncrement, started,
                   unrecorded, genVars, usdtContract, contractInits, botVars, http, closing>>

\* tronWeb.trx.getBalance(address) settles over an address holding trx:
\* getTRXBalance returns
GetBalanceSettles(r) ==
    /\ reads[r].pc = "promiseAll"
    /\ reads[r].trxRead = "getBalance"
    /\ \E ok \in BOOLEAN, trx \in TrxChoices :
         ReadStep(r, [reads[r] EXCEPT !.trxRead = "done", !.trx = trx,
                                      !.trxFails = ~ok])
    /\ UNCHANGED <<sweepStats, cyc, users, usersAutoIncrement, addresses, transactions, autoIncrement, started,
                   unrecorded, genVars, usdtContract, contractInits, readCount,
                   botVars, http, closing>>

\* the initializeContract() call of getUSDTBalance settles: the handle is set
\* or the error is logged; then this.usdtContract.balanceOf(address).call()
\* is awaited, or throws at once on a handle still undefined
InitializeContractSettles(r) ==
    /\ reads[r].pc = "promiseAll"
    /\ reads[r].usdtRead = "initializeContract"
    /\ \E ok \in BOOLEAN, usdt \in UsdtChoices :
         /\ SetContract(ok)
         /\ IF usdtContract \/ ok
            THEN ReadStep(r, [reads[r] EXCEPT !.usdtRead = "balanceOf"])
            ELSE ReadStep(r, [reads[r] EXCEPT !.usdtRead = "done", !.usdt = usdt,
                                              !.usdtFails = TRUE])
    /\ UNCHANGED <<sweepStats, cyc, users, usersAutoIncrement, addresses, transactions, autoIncrement, started,
                   unrecorded, genVars, contractInits, readCount, botVars, http, closing>>

\* this.usdtContract.balanceOf(address).call() settles over an address
\* holding usdt: getUSDTBalance returns
BalanceOfSettles(r) ==
    /\ reads[r].pc = "promiseAll"
    /\ reads[r].usdtRead = "balanceOf"
    /\ \E ok \in BOOLEAN, usdt \in UsdtChoices :
         ReadStep(r, [reads[r] EXCEPT !.usdtRead = "done", !.usdt = usdt,
                                      !.usdtFails = ~ok])
    /\ UNCHANGED <<sweepStats, cyc, users, usersAutoIncrement, addresses, transactions, autoIncrement, started,
                   unrecorded, genVars, usdtContract, contractInits, readCount,
                   botVars, http, closing>>

\* Promise.all settles: getAccountInfo returns its record
GetAccountInfoReturns(r) ==
    /\ reads[r].pc = "promiseAll"
    /\ reads[r].trxRead = "done"
    /\ reads[r].usdtRead = "done"
    /\ ReadStep(r, [reads[r] EXCEPT
            !.pc = "returned",
            !.result = getAccountInfo(reads[r].trx, reads[r].trxFails,
                                      reads[r].usdt, reads[r].usdtFails)])
    /\ UNCHANGED <<sweepStats, cyc, users, usersAutoIncrement, addresses, transactions, autoIncrement, started,
                   unrecorded, genVars, usdtContract, contractInits, readCount,
                   botVars, http, closing>>

\* the caller takes the record
ReadTaken(r) ==
    /\ reads[r].pc = "returned"
    /\ ReadStep(r, IdleRead)
    /\ UNCHANGED <<sweepStats, cyc, users, usersAutoIncrement, addresses, transactions, autoIncrement, started,
                   unrecorded, genVars, usdtContract, contractInits, readCount,
                   botVars, http, closing>>

NextReads ==
    \/ ConstructorInitSettles
    \/ \E r \in Readers : GetAccountInfoCalled(r)
    \/ \E r \in Readers : GetBalanceSettles(r)
    \/ \E r \in Readers : InitializeContractSettles(r)
    \/ \E r \in Readers : BalanceOfSettles(r)
    \/ \E r \in Readers : GetAccountInfoReturns(r)
    \/ \E r \in Readers : ReadTaken(r)

\* balance reads of a process just started, alone or two at a time
SpecReads == InitDust /\ [][NextReads]_vars

\* overlapping cycles over one address
Spec == Init /\ [][Next]_vars

\* the same, across restarts of the process
SpecRestart == Init /\ [][NextRestart]_vars

\* one cycle over one address with a native balance around the dust floor
SpecDust == InitDust /\ [][NextDust]_vars

\* one cycle over two addresses
SpecBatch == InitBatch /\ [][Next]_vars

\* the call caller p's invocation awaits settles: it returns or fails
Settles(p) ==
    \/ GetAllActiveAddresses(p)
    \/ InitializeContract(p)
    \/ GetAccountInfo(p)
    \/ SweepGetAccountInfo(p)
    \/ TransferUSDT(p)
    \/ TransferTRX(p)
    \/ CreateTransaction(p)
    \/ GetUserByTelegramId(p)
    \/ SendNotification(p)
    \/ SendMessage(p)
    \/ Delay(p)

\* one cycle over two addresses, every awaited call settling eventually
SpecLive == InitBatch /\ [][Next]_vars /\ \A p \in Procs : WF_vars(Settles(p))

(***************************************************************************)
(* TRC20WalletServer: the admin route POST /api/sweep.                     *)
(***************************************************************************)
\* the process before the last cycle of the budget, over one active address,
\* with or without ADMIN_API_KEY in its environment
InitAdmin ==
    /\ sweepStats = [totalSwept |-> 0, lastSweepTime |-> 0, sweepCount |-> 0, errors |-> 0]
    /\ cyc = [p \in Procs |-> Idle]
    /\ users = UserRows
    /\ usersAutoIncrement = Cardinality(UserRows) + 1
    /\ addresses = <<AddressRow(1, 2, "TAddr1", "enc1")>>
    /\ transactions = <<>>
    /\ autoIncrement = Len(transactions) + 1
    /\ started = MaxCycles - 1
    /\ unrecorded = {}
    /\ gen = [r \in Reqs |-> IdleRequest]
    /\ env \in {[HD_WALLET_MNEMONIC |-> TRUE, ADMIN_API_KEY |-> k] : k \in {Undefined, "k1"}}
    /\ mnemonics = 0
    /\ requests = 0
    /\ InitRest

NextAdmin ==
    \/ ConstructorInitSettles
    \/ ApiSweep
    \/ Respond("api")
    \/ \E p \in Procs : Settles(p)

\* manual sweeps requested through the admin route
SpecAdmin == InitAdmin /\ [][NextAdmin]_vars

(***************************************************************************)
(* TelegramBotHandler: the rate limiter.                                   *)
(***************************************************************************)
\* the times that may pass between two events, in ms
Elapse == {60000, 60001}

\* /start arrives from sender u: handleStart calls this.isRateLimited(userId);
\* over the limit it answers and returns, else it awaits
\* database.createUser(userId, ...)
HandleStart(u) ==
    /\ LET answer == isRateLimited(SessionOf(u), clock)
       IN  /\ answer.limited \/ BagCardinality(starting) < MaxStarts
           /\ RateLimiterWrites(u, answer)
           /\ starting' = IF answer.limited
                          THEN starting
                          ELSE starting (+) SetToBag({u})
    /\ UNCHANGED <<sweepStats, cyc, users, usersAutoIncrement, addresses, transactions, autoIncrement, started,
                   unrecorded, genVars, readVars, clock, http, closing>>

\* the createUser call of one handleStart invocation settles for sender u:
\* the row is there, and the welcome message is sent; or the handler's catch
\* answers
StartCreateUser(u) ==
    /\ BagIn(u, starting)
    /\ starting' = starting (-) SetToBag({u})
    /\ \E storeOk \in BOOLEAN :
         IF storeOk
         THEN /\ usersAutoIncrement <= MaxUserId
              /\ users' = createUser(users, usersAutoIncrement, u).users
              /\ usersAutoIncrement' = createUser(users, usersAutoIncrement, u).autoIncrement
         ELSE UNCHANGED <<users, usersAutoIncrement>>
    /\ UNCHANGED <<sweepStats, cyc, addresses, transactions, autoIncrement, started,
                   unrecorded, genVars, readVars, userSessions, clock, allowed, http,
                   closing>>

\* /balance arrives from sender u (or the callback "balance"): handleBalance
\* calls this.isRateLimited(userId); over the limit it answers and returns,
\* else it awaits the loading message and its lookups in the store, which
\* write nothing; the balances it then asks for are getAccountInfo calls
\* (GetAccountInfoCalled)
HandleBalance(u) ==
    /\ RateLimiterWrites(u, isRateLimited(SessionOf(u), clock))
    /\ UNCHANGED <<sweepStats, cyc, users, usersAutoIncrement, addresses, transactions, autoIncrement, started,
                   unrecorded, genVars, readVars, clock, starting, http, closing>>

\* time passes
Tick ==
    /\ \E d \in Elapse :
         /\ clock + d <= MaxClock
         /\ clock' = clock + d
         /\ allowed' = [u \in DOMAIN allowed |-> LastMinute(allowed[u], clock + d)]
    /\ UNCHANGED <<sweepStats, cyc, users, usersAutoIncrement, addresses, transactions, autoIncrement, started,
                   unrecorded, genVars, readVars, userSessions, starting, http, closing>>

NextBot ==
    \/ \E u \in Senders : HandleStart(u)
    \/ \E u \in Senders : StartCreateUser(u)
    \/ \E u \in Senders : HandleBalance(u)
    \/ Tick

\* commands arriving from two senders
SpecBot == InitDust /\ [][NextBot]_vars

(***************************************************************************)
(* Properties.                                                             *)
(***************************************************************************)
\* caller p is inside sweepToMasterWallet
InSweep(p) == cyc[p].pc \in {"sweepGetAccountInfo", "transferUSDT", "transferTRX"}

\* sweepToMasterWallet has read the balances of the current address and
\* decided on the fungible-token transfer
PastUsdtDecision(c) ==
    c.pc \in {"transferUSDT", "transferTRX", "createTransaction",
              "getUserByTelegramId", "sendNotification", "sendMessage", "delay"}

\* sweepToMasterWallet has decided on the native transfer too
PastTrxDecision(c) ==
    c.pc \in {"transferTRX", "createTransaction",
              "getUserByTelegramId", "sendNotification", "sendMessage", "delay"}

\* a transfer of this kind was submitted from the current address
HasSubmitted(c, type) == \E k \in 1..Len(c.submitted) : c.submitted[k] = type

\* C1: two sweep cycles are never in progress together, so never are two
\* invocations of performSweep sweeping the same address at once.
C1_NoOverlappingSweep ==
    \A p, q \in Procs :
        (p # q /\ InSweep(p) /\ InSweep(q))
            => Current(cyc[p]).id # Current(cyc[q]).id

\* C2: the transactions table never holds two rows with the same tx_hash.
C2_UniqueTxHash ==
    \A k1, k2 \in 1..Len(transactions) :
        transactions[k1].tx_hash = transactions[k2].tx_hash => k1 = k2

\* a createTransaction call carrying a stored hash was made, and the table
\* holds that hash once
C2_Witness ==
    /\ \E p \in Procs : cyc[p].refused > 0
    /\ Len(transactions) > 0

\* C3: a createTransaction call whose txHash is already stored returns
\* normally: the record loop goes on and errorCount does not change.
C3_DuplicateRecordIsNoOp ==
    [][\A p \in Procs :
        (/\ cyc[p].pc = "createTransaction"
         /\ cyc'[p] # cyc[p]
         /\ UniqueViolation(transactions, cyc[p].transactions[cyc[p].j].txHash))
        => /\ cyc'[p].errorCount = cyc[p].errorCount
           /\ cyc'[p].pc \in {"createTransaction", "getUserByTelegramId"}]_vars

\* C4: while sweepToMasterWallet works on an address whose native balance it
\* read below the gas reserve, no fungible-token transfer is submitted from it.
C4_GasGate ==
    \A p \in Procs :
        cyc[p].trxBalance < MinGasReserve => ~HasSubmitted(cyc[p], "USDT")

\* token balance above the minimum, native balance read but below the
\* reserve, and the sweep went on to the native transfer
C4_Witness ==
    \E p \in Procs :
        /\ cyc[p].pc = "transferTRX"
        /\ cyc[p].usdtBalance > MinSweepAmount
        /\ cyc[p].trxBalance > 0
        /\ cyc[p].trxBalance < MinGasReserve
        /\ ~HasSubmitted(cyc[p], "USDT")

\* C5 as stated: when the token balance meets the minimum and the native
\* balance is below the gas reserve, no transfer of either kind is submitted.
C5_GasGateSkipsAddress ==
    \A p \in Procs :
        (cyc[p].usdtBalance >= MinSweepAmount /\ cyc[p].trxBalance < MinGasReserve)
            => cyc[p].submitted = <<>>

\* C5 as amended: when the token balance meets the minimum and the native
\* balance is below the gas reserve, no fungible-token transfer is submitted;
\* the native sweep is submitted all the same when nativeBalance - 1 exceeds 0.1.
C5_GasGateSkipsFungibleOnly ==
    \A p \in Procs :
        (cyc[p].usdtBalance >= MinSweepAmount /\ cyc[p].trxBalance < MinGasReserve)
            => /\ ~HasSubmitted(cyc[p], "USDT")
               /\ TrxToSweep(cyc[p].trxBalance) > MinNativeSweep
                    => cyc[p].submitted = <<"TRX">>

\* the gas gate failed and the native transfer was submitted
C5_Witness ==
    \E p \in Procs :
        /\ cyc[p].usdtBalance >= MinSweepAmount
        /\ cyc[p].trxBalance < MinGasReserve
        /\ cyc[p].submitted = <<"TRX">>

\* C6: once an address is evaluated with nativeBalance - 1 above 0.1, a native
\* transfer is submitted from it, whatever its token balance.
C6_NativeSweepIndependent ==
    \A p \in Procs :
        (\/ /\ cyc[p].pc = "delay"
            /\ TrxToSweep(cyc[p].accountInfo.trxBalance) > MinNativeSweep
         \/ /\ PastTrxDecision(cyc[p])
            /\ TrxToSweep(cyc[p].trxBalance) > MinNativeSweep)
        => HasSubmitted(cyc[p], "TRX")

\* C7: once sweepToMasterWallet read tokenBalance >= minSweep and
\* nativeBalance >= minGasReserve, a fungible-token transfer is submitted.
C7_FungibleSweepAtMinimum ==
    \A p \in Procs :
        (/\ PastUsdtDecision(cyc[p])
         /\ cyc[p].usdtBalance >= MinSweepAmount
         /\ cyc[p].trxBalance >= MinGasReserve)
        => HasSubmitted(cyc[p], "USDT")

\* C8: the step that ends a cycle adds to sweepStats.totalSwept the amounts of
\* all the transfers the chain accepted in that cycle, fungible and native.
C8_TotalSweptCountsAllTransfers ==
    [][\A p \in Procs :
        (cyc[p].pc # "returned" /\ cyc'[p].pc = "returned")
            => sweepStats'.totalSwept = sweepStats.totalSwept + cyc'[p].sent]_vars

\* C9: the step in which a transfer submission fails adds one to the cycle's
\* errorCount.
C9_FailedTransferCounted ==
    [][\A p \in Procs :
        (/\ cyc[p].pc \in {"transferUSDT", "transferTRX"}
         /\ cyc'[p] # cyc[p]
         /\ Len(cyc'[p].transactions) = Len(cyc[p].transactions))
        => cyc'[p].errorCount = cyc[p].errorCount + 1]_vars

\* C10: when performSweep returns it has evaluated every address it listed,
\* whichever of them failed, and counted one error per failed address.
C10_FailureIsolation ==
    \A p \in Procs :
        cyc[p].pc = "returned"
            => /\ cyc[p].evaluated = {cyc[p].addresses[k].id : k \in 1..Len(cyc[p].addresses)}
               /\ cyc[p].failed \subseteq cyc[p].evaluated
               /\ cyc[p].errorCount = Cardinality(cyc[p].failed)

\* the first address failed and a transfer was still submitted from the second
C10_Witness ==
    \E p \in Procs :
        /\ cyc[p].pc = "returned"
        /\ 1 \in cyc[p].failed
        /\ 2 \in cyc[p].swept
        /\ cyc[p].evaluated = {1, 2}

\* the table holds the record of an accepted transfer: its txHash, its source
\* address, the master wallet as destination, its amount and status pending
Recorded(t) ==
    \E k \in 1..Len(transactions) :
        /\ transactions[k].tx_hash = t.tx.txHash
        /\ transactions[k].from_address = t.from_address
        /\ transactions[k].to_address = MasterAddress
        /\ transactions[k].amount = t.tx.amount
        /\ transactions[k].token = t.tx.type
        /\ transactions[k].status = "pending"

\* C11: when performSweep returns from a cycle in which the store refused no
\* insert, every transfer the chain accepted in the cycle has its record.
C11_AcceptedTransfersRecorded ==
    \A p \in Procs :
        (cyc[p].pc = "returned" /\ cyc[p].rejected = 0)
            => \A t \in cyc[p].accepted : Recorded(t)

\* the bot.sendMessage calls of cycle c that report on address a
NotificationsFor(c, a) ==
    {k \in 1..Len(c.notified) : c.notified[k].address_id = a.id}

\* C12: when performSweep returns, every listed address the chain accepted a
\* transfer from has exactly one notification, sent to the telegram id of the
\* user who owns the address, and every other listed address has none.
C12_OneNotificationToOwner ==
    \A p \in Procs :
        cyc[p].pc = "returned" =>
            \A i \in 1..Len(cyc[p].addresses) :
                LET a == cyc[p].addresses[i]
                IN  IF \E t \in cyc[p].accepted : t.from_address = a.address
                    THEN /\ Cardinality(NotificationsFor(cyc[p], a)) = 1
                         /\ \A k \in NotificationsFor(cyc[p], a) :
                              \E u \in users :
                                 /\ u.id = a.user_id
                                 /\ u.telegram_id = cyc[p].notified[k].telegram_id
                    ELSE NotificationsFor(cyc[p], a) = {}

\* C13: among the transfers submitted from one address in one cycle, the
\* native transfer never comes before the fungible-token transfer.
C13_FungibleBeforeNative ==
    \A p \in Procs :
        \A k1, k2 \in 1..Len(cyc[p].submitted) :
            (cyc[p].submitted[k1] = "TRX" /\ cyc[p].submitted[k2] = "USDT")
                => k2 < k1

\* both transfers were submitted from the current address
C13_Witness ==
    \E p \in Procs : cyc[p].submitted = <<"USDT", "TRX">>

\* C18: performSweep throws only when getAllActiveAddresses failed: it then
\* has listed nothing, read no balance and submitted no transfer, and the
\* caller gets the exception with the error counted; an invocation that gets
\* past the listing returns only after the last address it listed.
C18_AbortOnlyOnEnumerationFailure ==
    \A p \in Procs :
        /\ cyc[p].pc = "threw"
             => /\ cyc[p].addresses = <<>>
                /\ cyc[p].i = 0
                /\ cyc[p].evaluated = {}
                /\ cyc[p].swept = {}
                /\ cyc[p].accepted = {}
                /\ sweepStats.errors > 0
        /\ cyc[p].pc = "returned"
             => /\ cyc[p].i = Len(cyc[p].addresses) + 1
                /\ cyc[p].evaluated =
                      {cyc[p].addresses[k].id : k \in 1..Len(cyc[p].addresses)}

\* the listing failed, and the caller is about to get the exception
C18_Witness ==
    \E p \in Procs :
        /\ cyc[p].pc = "threw"
        /\ Len(addresses) = 2
        /\ sweepStats.errors = 1

\* C19: the step in which the delivery of a notification fails leaves the
\* transactions table and the cycle's errorCount as they are, and the
\* invocation goes on to the delay before its next address.
C19_NotificationFailureSwallowed ==
    [][\A p \in Procs :
        (/\ cyc[p].undelivered \subseteq cyc'[p].undelivered
         /\ cyc'[p].undelivered # cyc[p].undelivered)
            => /\ transactions' = transactions
               /\ cyc'[p].errorCount = cyc[p].errorCount
               /\ cyc'[p].failed = cyc[p].failed
               /\ cyc'[p].pc = "delay"
               /\ cyc'[p].i = cyc[p].i]_vars

\* the notification for the first address failed after its record was
\* written, and the cycle went on to sweep the second address without error
C19_Witness ==
    \E p \in Procs :
        /\ cyc[p].pc = "returned"
        /\ 1 \in cyc[p].undelivered
        /\ 2 \in cyc[p].swept
        /\ cyc[p].errorCount = 0
        /\ \E k \in 1..Len(transactions) : transactions[k].address_id = 1

\* C20: no store operation changes the status of a stored transaction that
\* is confirmed or failed (so none returns to pending).
C20_StatusForwardOnly ==
    [][\A k \in 1..Len(transactions), k2 \in 1..Len(transactions') :
        (/\ transactions'[k2].id = transactions[k].id
         /\ transactions[k].status # "pending")
            => transactions'[k2].status = transactions[k].status]_vars

\* the invocation is between its start and the end of its for loop
InCycle(c) == c.pc \notin {"idle", "returned", "threw"}

\* C17: no step changes sweepStats while a cycle stays between its start and
\* the completion of its last address, and the step that completes a cycle
\* adds one to sweepCount and the cycle's errorCount to errors.
C17_StatsOnlyAtCycleEnd ==
    [][\A p \in Procs :
        /\ (InCycle(cyc[p]) /\ InCycle(cyc'[p])) => sweepStats' = sweepStats
        /\ (cyc[p].pc # "returned" /\ cyc'[p].pc = "returned")
             => /\ sweepStats'.sweepCount = sweepStats.sweepCount + 1
                /\ sweepStats'.errors = sweepStats.errors + cyc'[p].errorCount]_vars

\* C16: the stored addresses of one owner carry pairwise distinct derivation
\* indices, and the index of a newly stored address is the number of addresses
\* its owner had already.
C16_UniqueMonotoneIndex ==
    [][/\ \A k1, k2 \in 1..Len(addresses') :
            (/\ k1 # k2
             /\ addresses'[k1].user_id = addresses'[k2].user_id)
                => addresses'[k1].derivation_index # addresses'[k2].derivation_index
       /\ Len(addresses') > Len(addresses)
            => LET row == addresses'[Len(addresses')]
               IN  row.derivation_index =
                      Cardinality(getUserAddresses(addresses, row.user_id))]_vars

\* C15: while a transfer the chain accepted from an address is unconfirmed
\* and was left without a record by a stop of the process, the restarted
\* engine (no shutdown in progress) submits no transfer from that address.
C15_NoResendAfterRestart ==
    \A p \in Procs :
        (~closing /\ cyc[p].pc \in {"transferUSDT", "transferTRX"})
            => Current(cyc[p]).id \notin unrecorded

\* C14: a native transfer is submitted from an address only when its
\* nativeBalance - 1 exceeds 0.1, and an accepted native transfer carries the
\* amount nativeBalance - 1.
C14_DustFloor ==
    \A p \in Procs :
        /\ HasSubmitted(cyc[p], "TRX")
             => cyc[p].trxBalance - DustReserve > MinNativeSweep
        /\ \A k \in 1..Len(cyc[p].transactions) :
             cyc[p].transactions[k].type = "TRX"
                => cyc[p].transactions[k].amount = cyc[p].trxBalance - DustReserve

\* the transfers of this kind submitted from the current address
SubmittedOf(c, type) == {k \in 1..Len(c.submitted) : c.submitted[k] = type}

\* C21: an invocation of performSweep lists every address once, and from the
\* address it is at it has submitted at most one fungible-token transfer and
\* at most one native transfer, whether or not a submission failed.
C21_NoRetryWithinCycle ==
    \A p \in Procs :
        /\ \A k1, k2 \in 1..Len(cyc[p].addresses) :
              cyc[p].addresses[k1].id = cyc[p].addresses[k2].id => k1 = k2
        /\ Cardinality(SubmittedOf(cyc[p], "USDT")) <= 1
        /\ Cardinality(SubmittedOf(cyc[p], "TRX")) <= 1

\* both transfers from the first address failed: the invocation is at the
\* delay with one submission of each kind and nothing accepted
C21_Witness ==
    \E p \in Procs :
        /\ cyc[p].pc = "delay"
        /\ cyc[p].i = 1
        /\ cyc[p].submitted = <<"USDT", "TRX">>
        /\ cyc[p].accepted = {}
        /\ cyc[p].transactions = <<>>

\* C22: getAccountInfo ends only by returning, and the record it returns
\* holds zero for a component whose read failed and the balance the chain
\* answered for a component whose read succeeded.
C22_FailedReadReportsZero ==
    \A r \in Readers :
        /\ reads[r].pc \in {"idle", "promiseAll", "returned"}
        /\ reads[r].pc = "returned" =>
              /\ reads[r].result.trxBalance =
                    IF reads[r].trxFails THEN 0 ELSE reads[r].trx
              /\ reads[r].result.usdtBalance =
                    IF reads[r].usdtFails THEN 0 ELSE reads[r].usdt

\* a call returned whose native read failed over an address holding 20 TRX,
\* with the token balance the contract answered
C22_Witness ==
    \E r \in Readers :
        /\ reads[r].pc = "returned"
        /\ reads[r].trxFails /\ reads[r].trx = 2000
        /\ ~reads[r].usdtFails
        /\ reads[r].result = [trxBalance |-> 0, usdtBalance |-> 12050]

\* the readers whose getUSDTBalance awaits a lazy initializeContract()
LazyInitializations ==
    {r \in Readers : reads[r].pc = "promiseAll"
                     /\ reads[r].usdtRead = "initializeContract"}

\* C23: concurrent balance reads that find the handle absent never have more
\* than one lazy initializeContract() started between them.
C23_OneLazyInitialization == Cardinality(LazyInitializations) <= 1

\* C24: no request holds a wallet generateHDWallet returned while
\* HD_WALLET_MNEMONIC is absent from the environment.
C24_NoWalletWithoutSeed ==
    \A r \in Reqs :
        gen[r].pc = "createAddress" => env.HD_WALLET_MNEMONIC

\* C28: the address a request derived for its owner is never one that is
\* stored for another owner, so that the store can accept it whatever the
\* other owners hold.
C28_OwnersDoNotCollide ==
    \A r \in Reqs :
        gen[r].pc = "createAddress" =>
            \A k \in 1..Len(addresses) :
                addresses[k].address = gen[r].address
                    => addresses[k].user_id = OwnerKey(gen[r])

\* C29: the owner a handler passes to createAddress is the id of the user
\* record of the sender, whether the record was found or just created.
C29_OwnerIsSendersRecord ==
    \A r \in Reqs :
        gen[r].pc = "createAddress" =>
            \E u \in users : /\ u.telegram_id = gen[r].userId
                             /\ u.id = OwnerKey(gen[r])

\* C26: every invocation of performSweep that has started eventually returns
\* or throws, provided every call it awaits settles.
C26_CycleTerminates ==
    \A p \in Procs :
        (cyc[p].pc = "getAllActiveAddresses") ~> (cyc[p].pc \in {"returned", "threw"})

\* a cycle over two addresses returned with errors: the first address
\* failed, a transfer was submitted from the second
C26_Witness ==
    \E p \in Procs :
        /\ cyc[p].pc = "returned"
        /\ Len(cyc[p].addresses) = 2
        /\ cyc[p].errorCount = 1
        /\ cyc[p].failed = {1}
        /\ 2 \in cyc[p].swept

\* C27: a POST /api/sweep request starts performSweep only when
\* ADMIN_API_KEY is configured and the adminKey of the request equals it;
\* every other request is answered 401 and starts nothing.
C27_SweepNeedsConfiguredKey ==
    [][/\ (cyc["api"].pc = "idle" /\ cyc'["api"].pc = "getAllActiveAddresses")
            => /\ env.ADMIN_API_KEY # Undefined
               /\ http'.adminKey = env.ADMIN_API_KEY
       /\ (http' # http /\ cyc["api"].pc = "idle"
              /\ ~(env.ADMIN_API_KEY # Undefined /\ http'.adminKey = env.ADMIN_API_KEY))
            => /\ http'.status = 401
               /\ cyc' = cyc]_vars

====
